---------------------------- MODULE Spec2Model ----------------------------
(***************************************************************************)
(* Model of the MEAS MS58XX altimeter character driver                     *)
(* (drivers/sensors/ms58xx.c): oversampling configuration, PROM read and   *)
(* CRC validation, the two-phase ADC conversion, the compensation          *)
(* arithmetic and the ioctl dispatch.                                      *)
(*                                                                         *)
(* Every driver entry point is one atomic action: the driver is            *)
(* synchronous and single-threaded.  The I2C transport is the environment: *)
(* each transaction nondeterministically succeeds or fails with a negated  *)
(* errno, and the sensor answers reads with a PROM image / ADC values the  *)
(* environment chooses.                                                    *)
(***************************************************************************)
EXTENDS Integers, Sequences, FiniteSets, TLC

VARIABLES
  priv,       \* struct ms58xx_dev_s of the registered device
  bigendian,  \* byte order of the host the driver was built for
  call,       \* the entry point that ran last ("register" after construction)
  arg,        \* its argument (0 when it takes none)
  ret,        \* its return value
  out,        \* <<v>> when it stored v through its int32_t pointer, else <<>>
  bus,        \* the bus transactions and delays it issued, in order
  loc,        \* the local variables it ended with
  lastosr     \* history: ratio of the most recent ms58xx_setosr that returned OK

vars == <<priv, bigendian, call, arg, ret, out, bus, loc, lastosr>>

-----------------------------------------------------------------------------
(* Register addresses and lengths.                                         *)

MS58XX_RESET_REG == 30
MS58XX_PRESS_REG == 64
MS58XX_TEMP_REG == 80
MS58XX_ADC_REG == 0
MS58XX_PROM_REG == 160
MS58XX_PROM_LEN == 8

(* Return values.                                                          *)

OK == 0
EIO == 5
ETIMEDOUT == 110
ENODEV == 19
EINVAL == 22
ENOTTY == 25

(* What a variable holds before it is assigned; every value the driver   *)
(* stores in such a variable is unsigned.                                *)
NoVal == -1

Models ==
  {"MS5803_02", "MS5803_05", "MS5803_07", "MS5803_14", "MS5803_30",
   "MS5805_02", "MS5806_02", "MS5837_30"}

-----------------------------------------------------------------------------
(* Fixed-width integer helpers.                                            *)

(* Bitwise operators on non-negative integers, four bits at a time. *)

Bit(x, k) == (x \div 2^k) % 2

And1(x, y) == x * y
Or1(x, y) == IF x + y > 0 THEN 1 ELSE 0
Xor1(x, y) == IF x = y THEN 0 ELSE 1

(* One bit operation over the four bits of a and b. *)
Nibble(op, a, b) ==
  LET f(x, y) == CASE op = "and" -> And1(x, y)
                   [] op = "or"  -> Or1(x, y)
                   [] op = "xor" -> Xor1(x, y)
  IN  f(Bit(a, 0), Bit(b, 0)) + 2 * f(Bit(a, 1), Bit(b, 1))
      + 4 * f(Bit(a, 2), Bit(b, 2)) + 8 * f(Bit(a, 3), Bit(b, 3))

NibbleAnd == [a \in 0 .. 15, b \in 0 .. 15 |-> Nibble("and", a, b)]
NibbleOr == [a \in 0 .. 15, b \in 0 .. 15 |-> Nibble("or", a, b)]
NibbleXor == [a \in 0 .. 15, b \in 0 .. 15 |-> Nibble("xor", a, b)]

RECURSIVE BitAnd(_, _)
BitAnd(a, b) ==
  IF a = 0 \/ b = 0 THEN 0
  ELSE NibbleAnd[a % 16, b % 16] + 16 * BitAnd(a \div 16, b \div 16)

RECURSIVE BitOr(_, _)
BitOr(a, b) ==
  IF a = 0 THEN b
  ELSE IF b = 0 THEN a
  ELSE NibbleOr[a % 16, b % 16] + 16 * BitOr(a \div 16, b \div 16)

RECURSIVE BitXor(_, _)
BitXor(a, b) ==
  IF a = 0 THEN b
  ELSE IF b = 0 THEN a
  ELSE NibbleXor[a % 16, b % 16] + 16 * BitXor(a \div 16, b \div 16)

U8(x) == x % 256
U16(x) == x % 65536

(* C integer division truncates toward zero. *)
TruncDiv(a, b) == IF a >= 0 THEN a \div b ELSE -((-a) \div b)

(* int64_t values: sign and magnitude, the magnitude a little-endian       *)
(* sequence of 15-bit limbs without leading zero limbs.                    *)

Base == 2^15

RECURSIVE MagNorm(_)
MagNorm(m) ==
  IF m = <<>> THEN <<>>
  ELSE IF m[Len(m)] = 0 THEN MagNorm(SubSeq(m, 1, Len(m) - 1))
  ELSE m

RECURSIVE MagOfNat(_)
MagOfNat(n) == IF n = 0 THEN <<>> ELSE <<n % Base>> \o MagOfNat(n \div Base)

RECURSIVE MagAdd(_, _, _)
MagAdd(a, b, c) ==
  IF a = <<>> /\ b = <<>> THEN (IF c = 0 THEN <<>> ELSE <<c>>)
  ELSE LET x == IF a = <<>> THEN 0 ELSE Head(a)
           y == IF b = <<>> THEN 0 ELSE Head(b)
           s == x + y + c
       IN  <<s % Base>> \o MagAdd(IF a = <<>> THEN a ELSE Tail(a),
                                  IF b = <<>> THEN b ELSE Tail(b),
                                  s \div Base)

RECURSIVE MagSub(_, _, _)
MagSub(a, b, w) ==
  IF a = <<>> THEN <<>>
  ELSE LET y == IF b = <<>> THEN 0 ELSE Head(b)
           d == Head(a) - y - w
       IN  <<IF d < 0 THEN d + Base ELSE d>>
           \o MagSub(Tail(a), IF b = <<>> THEN b ELSE Tail(b),
                     IF d < 0 THEN 1 ELSE 0)

RECURSIVE MagCmp(_, _)
MagCmp(a, b) ==
  IF Len(a) # Len(b) THEN (IF Len(a) < Len(b) THEN -1 ELSE 1)
  ELSE IF a = <<>> THEN 0
  ELSE IF a[Len(a)] # b[Len(b)] THEN (IF a[Len(a)] < b[Len(b)] THEN -1 ELSE 1)
  ELSE MagCmp(SubSeq(a, 1, Len(a) - 1), SubSeq(b, 1, Len(b) - 1))

RECURSIVE MagMulSmall(_, _, _)
MagMulSmall(a, d, c) ==
  IF a = <<>> THEN MagOfNat(c)
  ELSE LET p == Head(a) * d + c
       IN  <<p % Base>> \o MagMulSmall(Tail(a), d, p \div Base)

RECURSIVE MagMul(_, _)
MagMul(a, b) ==
  IF a = <<>> \/ b = <<>> THEN <<>>
  ELSE MagAdd(MagMulSmall(a, Head(b), 0),
              IF Tail(b) = <<>> THEN <<>> ELSE <<0>> \o MagMul(a, Tail(b)),
              0)

RECURSIVE MagDivSmall(_, _)
MagDivSmall(a, d) ==
  IF a = <<>> THEN [q |-> <<>>, r |-> 0]
  ELSE LET hi  == MagDivSmall(Tail(a), d)
           cur == hi.r * Base + Head(a)
       IN  [q |-> <<cur \div d>> \o hi.q, r |-> cur % d]

WMk(neg, mag) ==
  LET m == MagNorm(mag) IN [neg |-> neg /\ m # <<>>, mag |-> m]

I64(n) == [neg |-> n < 0, mag |-> MagOfNat(IF n < 0 THEN -n ELSE n)]

WAdd(a, b) ==
  IF a.neg = b.neg THEN WMk(a.neg, MagAdd(a.mag, b.mag, 0))
  ELSE IF MagCmp(a.mag, b.mag) >= 0 THEN WMk(a.neg, MagSub(a.mag, b.mag, 0))
  ELSE WMk(b.neg, MagSub(b.mag, a.mag, 0))

WSub(a, b) == WAdd(a, WMk(~b.neg, b.mag))

WMul(a, b) == WMk(a.neg # b.neg, MagMul(a.mag, b.mag))

(* a / d, truncating toward zero, for 0 < d < 2^15 *)
WDivSmall(a, d) == WMk(a.neg, MagDivSmall(a.mag, d).q)

(* a divided by 2^k, truncating toward zero *)
WDivPow2(a, k) ==
  LET drop == k \div 15
      rest == IF drop >= Len(a.mag) THEN <<>>
              ELSE SubSeq(a.mag, drop + 1, Len(a.mag))
  IN  WMk(a.neg, MagDivSmall(rest, 2^(k % 15)).q)

(* Conversion to int32_t: the low 32 bits, two's complement *)
ToInt32(a) ==
  LET limb(i) == IF i <= Len(a.mag) THEN a.mag[i] ELSE 0
      low31   == limb(1) + limb(2) * Base + (limb(3) % 2) * 2^30
      bit31   == (limb(3) \div 2) % 2
      pos     == IF bit31 = 1 THEN (low31 - 2^30) - 2^30 ELSE low31
  IN  IF ~a.neg THEN pos
      ELSE IF bit31 = 1 /\ low31 = 0 THEN pos
      ELSE -pos

-----------------------------------------------------------------------------
(* The I2C transport.  A transaction returns OK or a negated errno; the    *)
(* driver only tests ret < 0.  Each operator yields the set of outcomes of *)
(* the call it models, one per way the transactions in it can end.         *)

(* The failures drawn here: a write that is not acknowledged (-EIO) and a  *)
(* read that times out (-ETIMEDOUT).                                       *)
WriteResults == {OK, -EIO}
ReadResults == {OK, -ETIMEDOUT}

I2C_WRITE(b, byte, site) ==
  { [ret |-> r,
     bus |-> Append(b, [op |-> "write", val |-> byte, res |-> r, site |-> site])]
    : r \in WriteResults }

I2C_READ(b, nbytes, site) ==
  { [ret |-> r,
     bus |-> Append(b, [op |-> "read", val |-> nbytes, res |-> r, site |-> site])]
    : r \in ReadResults }

up_udelay(b, usec) ==
  Append(b, [op |-> "udelay", val |-> usec, res |-> OK, site |-> "delay"])

(* What the sensor sends for a PROM register: the 16-bit word, high byte    *)
(* first.  image is the sensor's PROM, words 0..7 at image[1]..image[8].    *)
SensorProm(image, regaddr) ==
  LET w == image[(regaddr - MS58XX_PROM_REG) \div 2 + 1]
  IN  <<w \div 256, w % 256>>

(* What the sensor sends for an ADC read: 24 bits, high byte first. *)
SensorAdc(adc) == <<adc \div 65536, (adc \div 256) % 256, adc % 256>>

-----------------------------------------------------------------------------
(* ms58xx_crc: src is the byte sequence, len its length.                    *)

(* The loops pass the running register on only once its value is known   *)
(* (the test crc \in Nat), which keeps the evaluation depth of a run over  *)
(* sixteen bytes small.                                                    *)
RECURSIVE CrcShift(_, _)
CrcShift(crc, j) ==
  IF j = 8 THEN crc
  ELSE LET xor     == BitAnd(crc, 32768) # 0
           shifted == U16(crc * 2)
           next    == IF xor THEN BitXor(shifted, 12288) ELSE shifted
       IN  IF next \in Nat THEN CrcShift(next, j + 1) ELSE next

RECURSIVE CrcLoop(_, _, _, _)
CrcLoop(src, len, i, crc) ==
  IF i = len THEN crc
  ELSE LET next == CrcShift(BitXor(crc, src[i + 1]), 0)
       IN  IF next \in Nat THEN CrcLoop(src, len, i + 1, next) ELSE next

-----------------------------------------------------------------------------
(* PROM images: three coefficient sets, each with the CRC nibble that the    *)
(* check accepts for one PROM layout on one host byte order.  The image    *)
(* ending 17675 is the worked example of the sensor maker's CRC note.      *)
PromImages ==
  { <<0, 40127, 36924, 23317, 23282, 33464, 28312, 43871>>,
    <<0, 40127, 36924, 23317, 23282, 33464, 28312, 43856>>,
    <<32768, 40127, 36924, 23317, 23282, 33464, 28312, 43856>>,
    <<12594, 13108, 13622, 14136, 14656, 16706, 17220, 17675>>,
    <<12594, 13108, 13622, 14136, 14656, 16706, 17220, 17679>>,
    <<306, 13108, 13622, 14136, 14656, 16706, 17220, 17664>>,
    <<20786, 13108, 13622, 14136, 14656, 16706, 17220, 17664>>,
    <<0, 40127, 36924, 23317, 23282, 33464, 65535, 43867>>,
    <<0, 40127, 36924, 23317, 23282, 33464, 65535, 43862>> }

(* Where a model keeps its CRC nibble and how many words it has. *)
Compact(model) == model \in {"MS5805_02", "MS5837_30"}

(* Eight words read on every model. *)
PromLen_all8(model) == MS58XX_PROM_LEN

PromLen(model) == IF Compact(model) THEN MS58XX_PROM_LEN - 1 ELSE MS58XX_PROM_LEN
CrcIndex(model) == IF Compact(model) THEN 0 ELSE 7
CrcShiftOf(model) == IF Compact(model) THEN 12 ELSE 0
CrcMask(model) == U16(15 * 2^CrcShiftOf(model))

ClearCrc(prom, model) ==
  [prom EXCEPT ![CrcIndex(model)] = BitAnd(@, 65535 - CrcMask(model))]

(* The uint16_t array prom viewed as bytes, as the host stores them. *)
RECURSIVE PromBytes(_, _, _)
PromBytes(prom, i, be) ==
  IF i = MS58XX_PROM_LEN THEN <<>>
  ELSE (IF be THEN <<prom[i] \div 256, prom[i] % 256>>
              ELSE <<prom[i] % 256, prom[i] \div 256>>)
       \o PromBytes(prom, i + 1, be)

(* The register values ms58xx_crc ends with for the byte arrays that       *)
(* reading one of PromImages hands to it, computed once.                   *)
CrcKnown ==
  { [src |-> src, crc |-> CrcLoop(src, 2 * MS58XX_PROM_LEN, 0, 0)]
    : src \in { PromBytes(ClearCrc([i \in 0 .. MS58XX_PROM_LEN - 1 |->
                                     IF Compact(m) /\ i = MS58XX_PROM_LEN - 1
                                       THEN 0 ELSE image[i + 1]], m), 0, be)
                : image \in PromImages, m \in {"MS5803_02", "MS5805_02"},
                  be \in BOOLEAN } }

ms58xx_crc(src, len) ==
  LET known == {k \in CrcKnown : k.src = src /\ len = Len(src)}
      crc   == IF known # {} THEN (CHOOSE k \in known : TRUE).crc
               ELSE CrcLoop(src, len, 0, 0)
  IN  U8(crc \div 2^12)

-----------------------------------------------------------------------------
(* ms58xx_readu16 and ms58xx_readadc *)

ms58xx_readu16(b, regaddr, image) ==
  UNION {
    IF w.ret < 0 THEN {[ret |-> w.ret, bus |-> w.bus, regval |-> NoVal]}
    ELSE { IF r.ret < 0
             THEN [ret |-> r.ret, bus |-> r.bus, regval |-> NoVal]
             ELSE LET buffer == SensorProm(image, regaddr)
                  IN  [ret |-> r.ret, bus |-> r.bus,
                       regval |-> BitOr(buffer[1] * 256, buffer[2])]
           : r \in I2C_READ(w.bus, 2, "prom") }
    : w \in I2C_WRITE(b, regaddr, "prom") }

ms58xx_readadc(b, sample) ==
  UNION {
    IF w.ret < 0 THEN {[ret |-> w.ret, bus |-> w.bus, adc |-> NoVal]}
    ELSE { IF r.ret < 0
             THEN [ret |-> r.ret, bus |-> r.bus, adc |-> NoVal]
             ELSE LET buffer == SensorAdc(sample)
                  IN  [ret |-> r.ret, bus |-> r.bus,
                       adc |-> BitOr(BitOr(buffer[1] * 65536, buffer[2] * 256),
                                     buffer[3])]
           : r \in I2C_READ(w.bus, 3, "adc") }
    : w \in I2C_WRITE(b, MS58XX_ADC_REG, "adc") }

-----------------------------------------------------------------------------
(* ms58xx_setosr: [ret, priv] *)

Has8192(model) == model \in {"MS5805_02", "MS5837_30"}

(* ms58xx_setosr without the switch on the model under case 8192. *)
ms58xx_setosr_any8192(p, osr) ==
  LET sw == CASE osr = 256  -> [ret |-> OK, delay |-> 600]
              [] osr = 512  -> [ret |-> OK, delay |-> 1170]
              [] osr = 1024 -> [ret |-> OK, delay |-> 2280]
              [] osr = 2048 -> [ret |-> OK, delay |-> 4540]
              [] osr = 4096 -> [ret |-> OK, delay |-> 9040]
              [] osr = 8192 -> [ret |-> OK, delay |-> 18080]
              [] OTHER      -> [ret |-> -EINVAL, delay |-> p.delay]
  IN  [ret  |-> sw.ret,
       priv |-> [p EXCEPT !.delay = sw.delay,
                          !.osr   = IF sw.ret = OK
                                      THEN U8((osr \div 256 - 1) * 2)
                                      ELSE @]]

(* ms58xx_setosr assigning the delay of case 8192 before the switch on the *)
(* model.                                                                  *)
ms58xx_setosr_delay_first(p, osr) ==
  LET sw == CASE osr = 256  -> [ret |-> OK, delay |-> 600]
              [] osr = 512  -> [ret |-> OK, delay |-> 1170]
              [] osr = 1024 -> [ret |-> OK, delay |-> 2280]
              [] osr = 2048 -> [ret |-> OK, delay |-> 4540]
              [] osr = 4096 -> [ret |-> OK, delay |-> 9040]
              [] osr = 8192 -> IF Has8192(p.model)
                                 THEN [ret |-> OK, delay |-> 18080]
                                 ELSE [ret |-> -EINVAL, delay |-> 18080]
              [] OTHER      -> [ret |-> -EINVAL, delay |-> p.delay]
  IN  [ret  |-> sw.ret,
       priv |-> [p EXCEPT !.delay = sw.delay,
                          !.osr   = IF sw.ret = OK
                                      THEN U8((osr \div 256 - 1) * 2)
                                      ELSE @]]

ms58xx_setosr(p, osr) ==
  LET sw == CASE osr = 256  -> [ret |-> OK, delay |-> 600]
              [] osr = 512  -> [ret |-> OK, delay |-> 1170]
              [] osr = 1024 -> [ret |-> OK, delay |-> 2280]
              [] osr = 2048 -> [ret |-> OK, delay |-> 4540]
              [] osr = 4096 -> [ret |-> OK, delay |-> 9040]
              [] osr = 8192 -> IF Has8192(p.model)
                                 THEN [ret |-> OK, delay |-> 18080]
                                 ELSE [ret |-> -EINVAL, delay |-> p.delay]
              [] OTHER      -> [ret |-> -EINVAL, delay |-> p.delay]
  IN  [ret  |-> sw.ret,
       priv |-> [p EXCEPT !.delay = sw.delay,
                          !.osr   = IF sw.ret = OK
                                      THEN U8((osr \div 256 - 1) * 2)
                                      ELSE @]]

-----------------------------------------------------------------------------
(* ms58xx_readprom: [ret, priv, bus, loc].  prom is the local array,       *)
(* indexed 0..7; a word not yet read holds NoVal.  loc keeps the array as  *)
(* read (raw) and as handed to ms58xx_crc (prom).                          *)

RECURSIVE ReadWords(_, _, _, _, _, _)
ReadWords(i, len, prom, b, image, r0) ==
  IF i = len THEN {[ret |-> r0, prom |-> prom, bus |-> b]}
  ELSE UNION {
         IF o.ret < 0 THEN {[ret |-> o.ret, prom |-> prom, bus |-> o.bus]}
         ELSE ReadWords(i + 1, len, [prom EXCEPT ![i] = o.regval], o.bus,
                        image, o.ret)
         : o \in ms58xx_readu16(b, U8(MS58XX_PROM_REG + i * 2), image) }

PromCoefficients(p, prom) ==
  LET c78 == CASE p.model = "MS5803_07" ->
                    [c7 |-> U8(BitAnd(prom[7], 1008) \div 2^4),
                     c8 |-> U8(BitAnd(prom[7], 63232) \div 2^10)]
               [] p.model = "MS5806_02" ->
                    [c7 |-> U8(BitAnd(prom[7], 4080) \div 2^4), c8 |-> 0]
               [] OTHER -> [c7 |-> 0, c8 |-> 0]
  IN  [p EXCEPT !.c1 = prom[1], !.c2 = prom[2], !.c3 = prom[3],
                !.c4 = prom[4], !.c5 = prom[5], !.c6 = prom[6],
                !.c7 = c78.c7, !.c8 = c78.c8]

(* ms58xx_readprom storing the coefficients before it checks the CRC. *)
ms58xx_readprom_store_first(p, be, b, image) ==
  LET len      == PromLen(p.model)
      crcindex == CrcIndex(p.model)
      crcshift == CrcShiftOf(p.model)
      prom0    == [i \in 0 .. MS58XX_PROM_LEN - 1 |->
                     IF Compact(p.model) /\ i = MS58XX_PROM_LEN - 1 THEN 0 ELSE NoVal]
      crcmask  == CrcMask(p.model)
      Check(o) ==
        IF o.ret < 0
          THEN [ret |-> o.ret, priv |-> p, bus |-> o.bus,
                loc |-> [fn |-> "readprom"]]
          ELSE LET crc  == U8(BitAnd(o.prom[crcindex], crcmask) \div 2^crcshift)
                   prom == ClearCrc(o.prom, p.model)
                   l    == [fn |-> "readprom", raw |-> o.prom, prom |-> prom,
                            crc |-> crc]
               IN  [ret  |-> IF crc # ms58xx_crc(PromBytes(prom, 0, be),
                                                 2 * MS58XX_PROM_LEN)
                               THEN -ENODEV ELSE o.ret,
                    priv |-> PromCoefficients(p, prom),
                    bus |-> o.bus, loc |-> l]
  IN  { Check(o) : o \in ReadWords(0, len, prom0, b, image, OK) }

ms58xx_readprom(p, be, b, image) ==
  LET len      == PromLen(p.model)
      crcindex == CrcIndex(p.model)
      crcshift == CrcShiftOf(p.model)
      prom0    == [i \in 0 .. MS58XX_PROM_LEN - 1 |->
                     IF Compact(p.model) /\ i = MS58XX_PROM_LEN - 1 THEN 0 ELSE NoVal]
      crcmask  == CrcMask(p.model)
      Check(o) ==
        IF o.ret < 0
          THEN [ret |-> o.ret, priv |-> p, bus |-> o.bus,
                loc |-> [fn |-> "readprom"]]
          ELSE LET crc  == U8(BitAnd(o.prom[crcindex], crcmask) \div 2^crcshift)
                   prom == ClearCrc(o.prom, p.model)
                   l    == [fn |-> "readprom", raw |-> o.prom, prom |-> prom,
                            crc |-> crc]
               IN  IF crc # ms58xx_crc(PromBytes(prom, 0, be), 2 * MS58XX_PROM_LEN)
                     THEN [ret |-> -ENODEV, priv |-> p, bus |-> o.bus, loc |-> l]
                     ELSE [ret |-> o.ret, priv |-> PromCoefficients(p, prom),
                           bus |-> o.bus, loc |-> l]
  IN  { Check(o) : o \in ReadWords(0, len, prom0, b, image, OK) }

(* ms58xx_reset: [ret, priv, bus, loc] *)

(* ms58xx_reset going on to read the PROM after a failed reset write. *)
ms58xx_reset_no_return(p, be, b, image) ==
  UNION { ms58xx_readprom(p, be, w.bus, image)
          : w \in I2C_WRITE(b, MS58XX_RESET_REG, "reset") }

ms58xx_reset(p, be, b, image) ==
  UNION {
    IF w.ret < 0
      THEN {[ret |-> w.ret, priv |-> p, bus |-> w.bus,
             loc |-> [fn |-> "reset"]]}
      ELSE ms58xx_readprom(p, be, w.bus, image)
    : w \in I2C_WRITE(b, MS58XX_RESET_REG, "reset") }

-----------------------------------------------------------------------------
(* ms58xx_convert: [ret, bus, regval].  The result of the trigger write is *)
(* logged and then overwritten by the result of ms58xx_readadc.            *)

ConvertSite(regaddr) == IF regaddr = MS58XX_PRESS_REG THEN "press" ELSE "temp"

(* ms58xx_convert reading the ADC right after the trigger write. *)
ms58xx_convert_no_wait(p, b, regaddr, sample) ==
  UNION {
    { [ret |-> a.ret, bus |-> a.bus, regval |-> a.adc]
      : a \in ms58xx_readadc(w.bus, sample) }
    : w \in I2C_WRITE(b, U8(BitOr(regaddr, p.osr)), ConvertSite(regaddr)) }

ms58xx_convert(p, b, regaddr, sample) ==
  UNION {
    { [ret |-> a.ret, bus |-> a.bus, regval |-> a.adc]
      : a \in ms58xx_readadc(up_udelay(w.bus, p.delay), sample) }
    : w \in I2C_WRITE(b, U8(BitOr(regaddr, p.osr)), ConvertSite(regaddr)) }

(* The arithmetic of ms58xx_measure after both conversions: the locals it  *)
(* ends with.                                                              *)

CONFIG_MS58XX_VDD == 30

(* The second-order terms chosen by the first-order temperature. *)
SecondOrderTerms_le(p, temp1) ==
  LET low  == temp1 <= 2000
      vlow == temp1 <= -1500
  IN  [diffmul   |-> IF low THEN p.diffmull ELSE p.diffmulh,
       diffdivs  |-> IF low THEN p.diffdivls ELSE p.diffdivhs,
       offmula   |-> IF low THEN p.offmull ELSE p.offmulh,
       offdivas  |-> IF low THEN p.offdivls ELSE p.offdivhs,
       sensmula  |-> IF low THEN p.sensmull ELSE p.sensmulh,
       sensdivas |-> IF low THEN p.sensdivls ELSE p.sensdivhs,
       offmulb   |-> IF low /\ vlow THEN p.offmulvl ELSE 0,
       sensmulb  |-> IF low /\ vlow THEN p.sensmulvl ELSE 0]

SecondOrderTerms(p, temp1) ==
  LET low  == temp1 < 2000
      vlow == temp1 < -1500
  IN  [diffmul   |-> IF low THEN p.diffmull ELSE p.diffmulh,
       diffdivs  |-> IF low THEN p.diffdivls ELSE p.diffdivhs,
       offmula   |-> IF low THEN p.offmull ELSE p.offmulh,
       offdivas  |-> IF low THEN p.offdivls ELSE p.offdivhs,
       sensmula  |-> IF low THEN p.sensmull ELSE p.sensmulh,
       sensdivas |-> IF low THEN p.sensdivls ELSE p.sensdivhs,
       offmulb   |-> IF low /\ vlow THEN p.offmulvl ELSE 0,
       sensmulb  |-> IF low /\ vlow THEN p.sensmulvl ELSE 0]

Compensate(p, rawpress, rawtemp) ==
  LET diff  == rawtemp - TruncDiv(p.c5, 2^8)
      temp1 == ToInt32(WAdd(I64(2000),
                            WDivPow2(WMul(I64(diff), I64(p.c6)), 23)))
      off1  == WAdd(WMul(I64(p.c2), I64(2^p.c2s)),
                    WDivPow2(WMul(I64(p.c4), I64(diff)), p.c4s))
      sens1 == WAdd(WMul(I64(p.c1), I64(2^p.c1s)),
                    WDivPow2(WMul(I64(p.c3), I64(diff)), p.c3s))
      so        == SecondOrderTerms(p, temp1)
      diffmul   == so.diffmul
      diffdivs  == so.diffdivs
      offmula   == so.offmula
      offdivas  == so.offdivas
      sensmula  == so.sensmula
      sensdivas == so.sensdivas
      offmulb   == so.offmulb
      sensmulb  == so.sensmulb
      tm0   == WSub(I64(temp1), I64(2000))
      tm    == WMul(tm0, tm0)
      tp0   == WAdd(I64(temp1), I64(1500))
      tp    == WMul(tp0, tp0)
      off   == WSub(off1, WAdd(WDivPow2(WMul(I64(offmula), tm), offdivas),
                               WMul(I64(offmulb), tp)))
      sens  == WSub(sens1, WAdd(WDivPow2(WMul(I64(sensmula), tm), sensdivas),
                                WMul(I64(sensmulb), tp)))
      temp  == temp1 - ToInt32(WDivPow2(WMul(WMul(I64(diffmul), I64(diff)),
                                             I64(diff)), diffdivs))
      press1 == ToInt32(WDivPow2(WSub(WDivPow2(WMul(I64(rawpress), sens), 21),
                                      off), p.pressdivs))
      press ==
        CASE p.model = "MS5803_07" ->
               IF press1 > 110000
                 THEN press1 + ToInt32(
                        WDivSmall(WDivSmall(
                          WMul(WSub(I64((p.c7 - 2^5) * 100 * 2^2),
                                    WDivPow2(WMul(I64(p.c8 - 2^5),
                                                  WSub(I64(temp), I64(2000))), 4)),
                               WSub(I64(press1), I64(110000))),
                          7000), 7000))
                 ELSE press1
          [] p.model = "MS5806_02" ->
               IF CONFIG_MS58XX_VDD >= 22 /\ CONFIG_MS58XX_VDD <= 30
                 THEN press1 + ToInt32(WDivSmall(
                        WMul(I64(30 - CONFIG_MS58XX_VDD), I64(p.c7)), 2^6 * 10))
                 ELSE press1
          [] OTHER -> press1
  IN  [fn |-> "measure", rawpress |-> rawpress, rawtemp |-> rawtemp,
       diff |-> diff, temp1 |-> temp1,
       diffmul |-> diffmul, diffdivs |-> diffdivs,
       offmula |-> offmula, offdivas |-> offdivas,
       sensmula |-> sensmula, sensdivas |-> sensdivas,
       offmulb |-> offmulb, sensmulb |-> sensmulb,
       temp |-> temp, press |-> press]

(* ms58xx_measure: [ret, priv, bus, loc].  Conversions is the I/O part,    *)
(* one record per way the two conversions can end; the arithmetic is done  *)
(* once for each pair of raw values they deliver.                          *)

MeasureFailed == [fn |-> "measure"]

(* The two conversions without the return after a failed pressure        *)
(* conversion.                                                              *)
Conversions_no_return(p, b, rawpress, rawtemp) ==
  UNION {
    { IF ct.ret < 0
        THEN [ret |-> ct.ret, bus |-> ct.bus,
              rawpress |-> cp.regval, rawtemp |-> NoVal]
        ELSE [ret |-> ct.ret, bus |-> ct.bus,
              rawpress |-> cp.regval, rawtemp |-> ct.regval]
      : ct \in ms58xx_convert(p, cp.bus, MS58XX_TEMP_REG, rawtemp) }
    : cp \in ms58xx_convert(p, b, MS58XX_PRESS_REG, rawpress) }

Conversions(p, b, rawpress, rawtemp) ==
  UNION {
    IF cp.ret < 0
      THEN {[ret |-> cp.ret, bus |-> cp.bus, rawpress |-> NoVal, rawtemp |-> NoVal]}
      ELSE { IF ct.ret < 0
               THEN [ret |-> ct.ret, bus |-> ct.bus,
                     rawpress |-> cp.regval, rawtemp |-> NoVal]
               ELSE [ret |-> ct.ret, bus |-> ct.bus,
                     rawpress |-> cp.regval, rawtemp |-> ct.regval]
             : ct \in ms58xx_convert(p, cp.bus, MS58XX_TEMP_REG, rawtemp) }
    : cp \in ms58xx_convert(p, b, MS58XX_PRESS_REG, rawpress) }

(* ms58xx_measure storing the raw pressure in the instance as soon as the *)
(* first conversion delivered it.                                          *)
ms58xx_measure_store_early(p, b, rawpress, rawtemp) ==
  LET io   == Conversions(p, b, rawpress, rawtemp)
      done == { Compensate(p, v[1], v[2])
                : v \in { <<o.rawpress, o.rawtemp>> : o \in {x \in io : x.ret >= 0} } }
      Locals(o) == CHOOSE l \in done :
                     l.rawpress = o.rawpress /\ l.rawtemp = o.rawtemp
  IN  { IF o.ret < 0
          THEN [ret |-> o.ret,
                priv |-> IF o.rawpress = NoVal THEN p
                         ELSE [p EXCEPT !.press = o.rawpress],
                bus |-> o.bus, loc |-> MeasureFailed]
          ELSE [ret |-> o.ret,
                priv |-> [p EXCEPT !.temp = Locals(o).temp,
                                   !.press = Locals(o).press],
                bus |-> o.bus, loc |-> Locals(o)]
        : o \in io }

ms58xx_measure(p, b, rawpress, rawtemp) ==
  LET io   == Conversions(p, b, rawpress, rawtemp)
      done == { Compensate(p, v[1], v[2])
                : v \in { <<o.rawpress, o.rawtemp>> : o \in {x \in io : x.ret >= 0} } }
      Locals(o) == CHOOSE l \in done :
                     l.rawpress = o.rawpress /\ l.rawtemp = o.rawtemp
  IN  { IF o.ret < 0
          THEN [ret |-> o.ret, priv |-> p, bus |-> o.bus, loc |-> MeasureFailed]
          ELSE [ret |-> o.ret,
                priv |-> [p EXCEPT !.temp = Locals(o).temp,
                                   !.press = Locals(o).press],
                bus |-> o.bus, loc |-> Locals(o)]
        : o \in io }

-----------------------------------------------------------------------------
(* ms58xx_register: the constants it stores per model, and the device it   *)
(* leaves registered.  Memory from kmm_malloc is not cleared: a field not  *)
(* yet assigned holds NoVal.                                               *)

MS58XX_ADDR0 == 118
MS58XX_ADDR1 == 119

LegalPair(model, addr) ==
  \/ /\ model \in {"MS5803_02", "MS5803_05", "MS5803_07", "MS5803_14",
                   "MS5803_30", "MS5806_02"}
     /\ addr \in {MS58XX_ADDR0, MS58XX_ADDR1}
  \/ /\ model \in {"MS5805_02", "MS5837_30"}
     /\ addr = MS58XX_ADDR0

ScalingOf(model) ==
  CASE model = "MS5803_05" -> [c1s |-> 17, c2s |-> 18, c3s |-> 7, c4s |-> 5]
    [] model = "MS5803_07" -> [c1s |-> 17, c2s |-> 18, c3s |-> 6, c4s |-> 5]
    [] model \in {"MS5803_14", "MS5803_30", "MS5837_30"} ->
         [c1s |-> 15, c2s |-> 16, c3s |-> 8, c4s |-> 7]
    [] OTHER -> [c1s |-> 16, c2s |-> 17, c3s |-> 7, c4s |-> 6]

SecondOrderOf(model) ==
  CASE model \in {"MS5803_02", "MS5806_02"} ->
         [diffmull |-> 1, diffdivls |-> 31, offmull |-> 61, offdivls |-> 4,
          sensmull |-> 2, sensdivls |-> 0, offmulvl |-> 20, sensmulvl |-> 12,
          diffmulh |-> 0, diffdivhs |-> 0, offmulh |-> 0, offdivhs |-> 0,
          sensmulh |-> 0, sensdivhs |-> 0]
    [] model \in {"MS5803_05", "MS5803_07"} ->
         [diffmull |-> 3, diffdivls |-> 33, offmull |-> 3, offdivls |-> 3,
          sensmull |-> 7, sensdivls |-> 3, offmulvl |-> 0, sensmulvl |-> 3,
          diffmulh |-> 0, diffdivhs |-> 0, offmulh |-> 0, offdivhs |-> 0,
          sensmulh |-> 0, sensdivhs |-> 0]
    [] model \in {"MS5803_14", "MS5803_30"} ->
         [diffmull |-> 3, diffdivls |-> 33, offmull |-> 3, offdivls |-> 1,
          sensmull |-> 5, sensdivls |-> 3, offmulvl |-> 7, sensmulvl |-> 4,
          diffmulh |-> 7, diffdivhs |-> 37, offmulh |-> 1, offdivhs |-> 4,
          sensmulh |-> 0, sensdivhs |-> 0]
    [] model = "MS5805_02" ->
         [diffmull |-> 11, diffdivls |-> 35, offmull |-> 31, offdivls |-> 3,
          sensmull |-> 63, sensdivls |-> 5, offmulvl |-> 0, sensmulvl |-> 0,
          diffmulh |-> 0, diffdivhs |-> 0, offmulh |-> 0, offdivhs |-> 0,
          sensmulh |-> 0, sensdivhs |-> 0]
    [] model = "MS5837_30" ->
         [diffmull |-> 3, diffdivls |-> 33, offmull |-> 3, offdivls |-> 1,
          sensmull |-> 5, sensdivls |-> 3, offmulvl |-> 7, sensmulvl |-> 4,
          diffmulh |-> 2, diffdivhs |-> 37, offmulh |-> 1, offdivhs |-> 4,
          sensmulh |-> 0, sensdivhs |-> 0]

PressDivsOf(model) ==
  IF model \in {"MS5803_30", "MS5837_30"} THEN 13 ELSE 15

Allocated(addr, model) ==
  LET sc == ScalingOf(model)
      so == SecondOrderOf(model)
  IN  [addr |-> addr, model |-> model, temp |-> 0, press |-> 0,
       osr |-> NoVal, delay |-> NoVal,
       c1 |-> NoVal, c2 |-> NoVal, c3 |-> NoVal, c4 |-> NoVal,
       c5 |-> NoVal, c6 |-> NoVal, c7 |-> NoVal, c8 |-> NoVal,
       c1s |-> sc.c1s, c2s |-> sc.c2s, c3s |-> sc.c3s, c4s |-> sc.c4s,
       diffmull |-> so.diffmull, diffdivls |-> so.diffdivls,
       offmull |-> so.offmull, offdivls |-> so.offdivls,
       sensmull |-> so.sensmull, sensdivls |-> so.sensdivls,
       offmulvl |-> so.offmulvl, sensmulvl |-> so.sensmulvl,
       diffmulh |-> so.diffmulh, diffdivhs |-> so.diffdivhs,
       offmulh |-> so.offmulh, offdivhs |-> so.offdivhs,
       sensmulh |-> so.sensmulh, sensdivhs |-> so.sensdivhs,
       pressdivs |-> PressDivsOf(model)]

(* [ret, priv, bus, loc]; priv is Freed when no instance is left. *)
Freed == [freed |-> TRUE]

ENOMEM == 12

(* The sanity check is a DEBUGASSERT: a build without debug assertions     *)
(* compiles it to nothing, a build with them stops the system when the     *)
(* condition is false.  Both builds are outcomes of a call with an illegal *)
(* pair.                                                                   *)
Asserted ==
  [ret |-> NoVal, priv |-> Freed, bus |-> <<>>, loc |-> [fn |-> "DEBUGASSERT"]]

(* kmm_malloc may return NULL and register_driver may fail. *)
ms58xx_register(be, image, addr, osr, model) ==
  LET failed(r, b) == [ret |-> r, priv |-> Freed, bus |-> b,
                       loc |-> [fn |-> "register"]]
      s   == ms58xx_setosr(Allocated(addr, model), osr)
      run == {failed(-ENOMEM, <<>>)} \cup
             IF s.ret < 0
               THEN {failed(s.ret, <<>>)}
               ELSE UNION { IF r.ret < 0 THEN {[r EXCEPT !.priv = Freed]}
                            ELSE {r, failed(-ENOMEM, r.bus)}
                            : r \in ms58xx_reset(s.priv, be, <<>>, image) }
  IN  IF LegalPair(model, addr) THEN run ELSE run \cup {Asserted}

-----------------------------------------------------------------------------
(* The environment: what the sensor holds and what callers pass.           *)

(* Raw 24-bit ADC results the sensor may deliver: one pressure reading, and *)
(* temperature readings spread evenly over the 24-bit range, RawSteps      *)
(* intervals wide.                                                         *)
RawSteps == 2

RawPress == {9085466}
RawTemp == { (k * (2^24 - 1)) \div RawSteps : k \in 0 .. RawSteps }

(* Arguments of the set-oversampling request. *)
OsrArgs ==
  {0, 255, 256, 512, 768, 1024, 2048, 4096, 8192, 16384, 65535, 65792}

Cmds ==
  {"SNIOC_MEASURE", "SNIOC_TEMPERATURE", "SNIOC_PRESSURE", "SNIOC_RESET",
   "SNIOC_OVERSAMPLING"}

OtherCmds == {"SNIOC_READCONF", "TCGETS"}

(* Bus addresses a caller may pass to ms58xx_register: the two the sensors *)
(* answer to and one that is neither.                                      *)
Addrs == {MS58XX_ADDR0, MS58XX_ADDR1, MS58XX_ADDR0 - 1}

-----------------------------------------------------------------------------
(* ms58xx_ioctl: [ret, priv, bus, loc, out].  env is what the sensor would *)
(* answer: its PROM image and the two raw conversion results.              *)

NoLocals == [fn |-> "ioctl"]

(* ms58xx_ioctl answering an unrecognized command with -EINVAL. *)
ms58xx_ioctl_einval(p, be, cmd, a, env) ==
  CASE cmd = "SNIOC_MEASURE" ->
         { [ret |-> o.ret, priv |-> o.priv, bus |-> o.bus, loc |-> o.loc,
            out |-> <<>>]
           : o \in ms58xx_measure(p, <<>>, env.rawpress, env.rawtemp) }
    [] cmd = "SNIOC_TEMPERATURE" ->
         {[ret |-> OK, priv |-> p, bus |-> <<>>, loc |-> NoLocals,
           out |-> <<p.temp>>]}
    [] cmd = "SNIOC_PRESSURE" ->
         {[ret |-> OK, priv |-> p, bus |-> <<>>, loc |-> NoLocals,
           out |-> <<p.press>>]}
    [] cmd = "SNIOC_RESET" ->
         { [ret |-> o.ret, priv |-> o.priv, bus |-> o.bus, loc |-> o.loc,
            out |-> <<>>]
           : o \in ms58xx_reset(p, be, <<>>, env.image) }
    [] cmd = "SNIOC_OVERSAMPLING" ->
         LET o == ms58xx_setosr(p, U16(a))
         IN  {[ret |-> o.ret, priv |-> o.priv, bus |-> <<>>,
               loc |-> [fn |-> "setosr", osr |-> U16(a)], out |-> <<>>]}
    [] OTHER ->
         {[ret |-> -EINVAL, priv |-> p, bus |-> <<>>, loc |-> NoLocals,
           out |-> <<>>]}

ms58xx_ioctl(p, be, cmd, a, env) ==
  CASE cmd = "SNIOC_MEASURE" ->
         { [ret |-> o.ret, priv |-> o.priv, bus |-> o.bus, loc |-> o.loc,
            out |-> <<>>]
           : o \in ms58xx_measure(p, <<>>, env.rawpress, env.rawtemp) }
    [] cmd = "SNIOC_TEMPERATURE" ->
         {[ret |-> OK, priv |-> p, bus |-> <<>>, loc |-> NoLocals,
           out |-> <<p.temp>>]}
    [] cmd = "SNIOC_PRESSURE" ->
         {[ret |-> OK, priv |-> p, bus |-> <<>>, loc |-> NoLocals,
           out |-> <<p.press>>]}
    [] cmd = "SNIOC_RESET" ->
         { [ret |-> o.ret, priv |-> o.priv, bus |-> o.bus, loc |-> o.loc,
            out |-> <<>>]
           : o \in ms58xx_reset(p, be, <<>>, env.image) }
    [] cmd = "SNIOC_OVERSAMPLING" ->
         LET o == ms58xx_setosr(p, U16(a))
         IN  {[ret |-> o.ret, priv |-> o.priv, bus |-> <<>>,
               loc |-> [fn |-> "setosr", osr |-> U16(a)], out |-> <<>>]}
    [] OTHER ->
         {[ret |-> -ENOTTY, priv |-> p, bus |-> <<>>, loc |-> NoLocals,
           out |-> <<>>]}

-----------------------------------------------------------------------------
(* The state machine.                                                      *)

Init ==
  \E be \in BOOLEAN, image \in PromImages, model \in Models,
     addr \in {MS58XX_ADDR0}, a \in OsrArgs :
    /\ LegalPair(model, addr)
    /\ a < 65536
    /\ \E o \in ms58xx_register(be, image, addr, a, model) :
         /\ o.ret >= 0
         /\ priv = o.priv
         /\ bigendian = be
         /\ call = "register"
         /\ arg = a
         /\ ret = o.ret
         /\ out = <<>>
         /\ bus = o.bus
         /\ loc = o.loc
         /\ lastosr = a

Ioctl(cmd, a, env) ==
  \E o \in ms58xx_ioctl(priv, bigendian, cmd, a, env) :
    /\ priv' = o.priv
    /\ call' = cmd
    /\ arg' = a
    /\ ret' = o.ret
    /\ out' = o.out
    /\ bus' = o.bus
    /\ loc' = o.loc
    /\ lastosr' = IF cmd = "SNIOC_OVERSAMPLING" /\ o.ret = OK
                    THEN U16(a) ELSE lastosr
    /\ UNCHANGED bigendian

NoEnv == [image |-> <<>>, rawpress |-> NoVal, rawtemp |-> NoVal]

Measure ==
  \E rp \in RawPress, rt \in RawTemp :
    Ioctl("SNIOC_MEASURE", 0, [NoEnv EXCEPT !.rawpress = rp, !.rawtemp = rt])

Temperature == Ioctl("SNIOC_TEMPERATURE", 1, NoEnv)

Pressure == Ioctl("SNIOC_PRESSURE", 1, NoEnv)

Reset ==
  \E image \in PromImages :
    Ioctl("SNIOC_RESET", 0, [NoEnv EXCEPT !.image = image])

Oversampling == \E a \in OsrArgs : Ioctl("SNIOC_OVERSAMPLING", a, NoEnv)

Unrecognized ==
  \E cmd \in OtherCmds, a \in {0, 256} : Ioctl(cmd, a, NoEnv)

Next ==
  \/ Measure
  \/ Temperature
  \/ Pressure
  \/ Reset
  \/ Oversampling
  \/ Unrecognized

Spec == Init /\ [][Next]_vars

NextOsr == Oversampling \/ Unrecognized

NextReset == Reset \/ Unrecognized

NextMeasure == Measure \/ Temperature \/ Pressure

(* Construction on its own: before it no instance exists. *)
InitBoot ==
  /\ priv = Freed
  /\ bigendian \in BOOLEAN
  /\ call = "boot"
  /\ arg = 0
  /\ ret = OK
  /\ out = <<>>
  /\ bus = <<>>
  /\ loc = NoLocals
  /\ lastosr = 0

Register ==
  /\ call = "boot"
  /\ \E image \in PromImages, model \in Models, addr \in Addrs,
        a \in {x \in OsrArgs : x < 2^16} :
       \E o \in ms58xx_register(bigendian, image, addr, a, model) :
         /\ priv' = o.priv
         /\ call' = "register"
         /\ arg' = a
         /\ ret' = o.ret
         /\ out' = <<>>
         /\ bus' = o.bus
         /\ loc' = o.loc
         /\ lastosr' = IF o.ret >= 0 THEN a ELSE lastosr
         /\ UNCHANGED bigendian

SpecRegister == InitBoot /\ [][Register]_vars

(* The same device driven by one kind of request only. *)
SpecOsr == Init /\ [][NextOsr]_vars
SpecReset == Init /\ [][NextReset]_vars
SpecMeasure == Init /\ [][NextMeasure]_vars

-----------------------------------------------------------------------------
(* Properties.                                                             *)

(* Positions of the failed transactions in a bus log. *)
Failures(b) == {i \in 1 .. Len(b) : b[i].res < 0}

(* The calibration coefficients an instance holds. *)
Coefficients(p) == <<p.c1, p.c2, p.c3, p.c4, p.c5, p.c6, p.c7, p.c8>>

(* The ratios a model accepts and the settle delay of each, as documented. *)
LegalRatio(model, r) ==
  \/ r \in {256, 512, 1024, 2048, 4096}
  \/ r = 8192 /\ model \in {"MS5805_02", "MS5837_30"}

DelayOf(r) ==
  CASE r = 256  -> 600
    [] r = 512  -> 1170
    [] r = 1024 -> 2280
    [] r = 2048 -> 4540
    [] r = 4096 -> 9040
    [] r = 8192 -> 18080

SelectorOf(r) == (r \div 256 - 1) * 2

(* C1: whenever a bus transaction of measure() fails, trigger writes       *)
(* included, measure() returns the error of that transaction.              *)
C1_BusErrorReturned ==
  call = "SNIOC_MEASURE" => \A i \in Failures(bus) : ret = bus[i].res

(* C2: a measure() that returns an error leaves the stored temperature and *)
(* pressure as they were; a measure() that succeeds overwrites both with   *)
(* the values it computed.                                                 *)
C2_StoredOnlyOnSuccess ==
  [][ call' = "SNIOC_MEASURE" =>
        IF ret' < 0
          THEN priv'.temp = priv.temp /\ priv'.press = priv.press
          ELSE priv'.temp = loc'.temp /\ priv'.press = loc'.press ]_vars

(* A measure() failed on a device that holds an earlier measurement. *)
C2_Witness ==
  /\ call = "SNIOC_MEASURE"
  /\ ret < 0
  /\ priv.temp # 0
  /\ priv.press # 0

(* C3: when the CRC computed over the PROM words read differs from the     *)
(* nibble stored in them, the reset returns -ENODEV and the coefficients   *)
(* C1..C8 of the instance are not modified.                                *)
C3_CrcMismatch ==
  [][ ( /\ call' = "SNIOC_RESET"
        /\ "crc" \in DOMAIN loc'
        /\ loc'.crc # ms58xx_crc(PromBytes(loc'.prom, 0, bigendian),
                                 2 * MS58XX_PROM_LEN) )
      => /\ ret' = -ENODEV
         /\ Coefficients(priv') = Coefficients(priv) ]_vars

(* A PROM whose words differ from the coefficients held was rejected. *)
C3_Witness ==
  /\ call = "SNIOC_RESET"
  /\ ret = -ENODEV
  /\ "prom" \in DOMAIN loc
  /\ loc.prom[1] # priv.c1
  /\ Failures(bus) = {}

(* C4: a bus failure during reset, at the reset command write or at any    *)
(* PROM word read, is the value reset returns, is the last transaction of  *)
(* the call, and leaves the coefficients C1..C8 as they were.              *)
C4_ResetBusFailure ==
  [][ call' = "SNIOC_RESET" =>
        \A i \in Failures(bus') :
          /\ ret' = bus'[i].res
          /\ i = Len(bus')
          /\ Coefficients(priv') = Coefficients(priv) ]_vars

(* The read of a PROM word after the first failed. *)
C4_Witness ==
  /\ call = "SNIOC_RESET"
  /\ Len(bus) > 3
  /\ bus[Len(bus)].res < 0
  /\ bus[Len(bus)].op = "read"
  /\ ret = bus[Len(bus)].res

(* C5: a set-oversampling request succeeds exactly for the ratios 256,     *)
(* 512, 1024, 2048, 4096, and 8192 on MS5805-02 and MS5837-30, and then    *)
(* the settle delay is 600, 1170, 2280, 4540, 9040, 18080 us; every other  *)
(* request returns -EINVAL.  Stated of each request made, and of every     *)
(* 16-bit ratio put to a newly registered device.                          *)
C5_RatiosAndDelays ==
  /\ call = "SNIOC_OVERSAMPLING" =>
       IF LegalRatio(priv.model, loc.osr)
         THEN ret = OK /\ priv.delay = DelayOf(loc.osr)
         ELSE ret = -EINVAL
  /\ (call = "register" /\ lastosr = 256 /\ bigendian) =>
       \A r \in 0 .. 2^16 - 1 :
         LET o == ms58xx_setosr(priv, r)
         IN  IF LegalRatio(priv.model, r)
               THEN o.ret = OK /\ o.priv.delay = DelayOf(r)
               ELSE o.ret = -EINVAL

(* The ratio 8192 was accepted. *)
C5_Witness ==
  /\ call = "SNIOC_OVERSAMPLING"
  /\ loc.osr = 8192
  /\ ret = OK
  /\ priv.delay = 18080

(* C6: the selector and the settle delay held are those of the ratio last  *)
(* set with success, the ratio given at registration if none was; a        *)
(* request that fails therefore changes neither.                           *)
C6_SelectorAndDelayAgree ==
  /\ priv.delay = DelayOf(lastosr)
  /\ priv.osr = SelectorOf(lastosr)

(* The ratio 8192 was refused on a device set to 2048. *)
C6_Witness ==
  /\ call = "SNIOC_OVERSAMPLING"
  /\ ret = -EINVAL
  /\ loc.osr = 8192
  /\ lastosr = 2048

(* C7: after a ratio was set with success the selector is an even value    *)
(* from 0 to 10.                                                           *)
C7_SelectorRange ==
  (call = "SNIOC_OVERSAMPLING" /\ ret = OK)
    => priv.osr \in {0, 2, 4, 6, 8, 10}

(* C8: the temperature difference computed by a measurement is the raw     *)
(* temperature minus C5 times 256.                                         *)
C8_Diff ==
  (call = "SNIOC_MEASURE" /\ ret >= 0)
    => loc.diff = loc.rawtemp - priv.c5 * 2^8

(* C9: measure() triggers the pressure conversion first and triggers the   *)
(* temperature conversion only after the pressure result was read; when    *)
(* the pressure conversion returned an error no temperature trigger is     *)
(* written.                                                                *)
C9_PressureFirst ==
  call = "SNIOC_MEASURE" =>
    /\ bus[1].site = "press"
    /\ \A i \in 1 .. Len(bus) :
         bus[i].site = "temp" =>
           \E j \in 1 .. i - 1, k \in 1 .. i - 1 :
             /\ j < k
             /\ bus[j].site = "press"
             /\ bus[k].site = "adc" /\ bus[k].op = "read" /\ bus[k].res >= 0

(* The read of the pressure result failed and measure() stopped there. *)
C9_Witness ==
  /\ call = "SNIOC_MEASURE"
  /\ ret < 0
  /\ Len(bus) = 4
  /\ bus[1].site = "press"
  /\ bus[4].op = "read" /\ bus[4].res < 0

(* C10: an unrecognized command returns -ENOTTY, which is neither -EINVAL  *)
(* nor -ENODEV, performs no bus transaction and changes nothing in the     *)
(* instance.                                                               *)
C10_Unrecognized ==
  [][ call' \in OtherCmds =>
        /\ ret' = -ENOTTY
        /\ ret' \notin {-EINVAL, -ENODEV}
        /\ bus' = <<>>
        /\ out' = <<>>
        /\ priv' = priv ]_vars

(* An unrecognized command reached a device set to the ratio 4096. *)
C10_Witness ==
  /\ call \in OtherCmds
  /\ ret = -ENOTTY
  /\ priv.delay = 9040

(* C11: ms58xx_register leaves a registered instance only for a legal pair *)
(* of model and address; a call with any other pair is rejected and leaves *)
(* no instance.                                                            *)
C11_LegalPairOnly ==
  (call = "register" /\ priv # Freed)
    => LegalPair(priv.model, priv.addr)

(* C12: the CRC value a PROM is checked against is the one obtained by     *)
(* feeding each word most-significant byte first, words 0..7 in order, and *)
(* so is the same on either host byte order; a PROM is accepted exactly    *)
(* when its stored nibble equals that value.                               *)
C12_CrcMsbFirst ==
  (call = "SNIOC_RESET" /\ "prom" \in DOMAIN loc) =>
    LET msbfirst == ms58xx_crc(PromBytes(loc.prom, 0, TRUE),
                               2 * MS58XX_PROM_LEN)
    IN  /\ ms58xx_crc(PromBytes(loc.prom, 0, bigendian),
                      2 * MS58XX_PROM_LEN) = msbfirst
        /\ ret >= 0 <=> loc.crc = msbfirst

(* C13: in every conversion the ADC read command is written only after a   *)
(* wait of the configured settle delay, which itself follows the trigger   *)
(* write.                                                                  *)
C13_WaitBeforeAdcRead ==
  call = "SNIOC_MEASURE" =>
    \A i \in 1 .. Len(bus) :
      (bus[i].site = "adc" /\ bus[i].op = "write") =>
        /\ bus[i].val = MS58XX_ADC_REG
        /\ i >= 3
        /\ bus[i - 1].op = "udelay"
        /\ bus[i - 1].val = priv.delay
        /\ bus[i - 2].op = "write"
        /\ bus[i - 2].site \in {"press", "temp"}

(* Both conversions of a measurement ran with the delay of ratio 4096. *)
C13_Witness ==
  /\ call = "SNIOC_MEASURE"
  /\ ret = OK
  /\ Len(bus) = 8
  /\ bus[7].site = "adc"
  /\ priv.delay = 9040

(* First-order temperatures on both sides of the two thresholds. *)
TempSamples == {-4000, -1501, -1500, -1499, 0, 1999, 2000, 2001, 8500}

(* The terms l are those documented for the first-order temperature t. *)
RegionTerms(p, t, l) ==
  /\ t < 2000 =>
       /\ l.diffmul = p.diffmull /\ l.diffdivs = p.diffdivls
       /\ l.offmula = p.offmull /\ l.offdivas = p.offdivls
       /\ l.sensmula = p.sensmull /\ l.sensdivas = p.sensdivls
  /\ t >= 2000 =>
       /\ l.diffmul = p.diffmulh /\ l.diffdivs = p.diffdivhs
       /\ l.offmula = p.offmulh /\ l.offdivas = p.offdivhs
       /\ l.sensmula = p.sensmulh /\ l.sensdivas = p.sensdivhs
  /\ t < -1500 => l.offmulb = p.offmulvl /\ l.sensmulb = p.sensmulvl
  /\ t >= -1500 => l.offmulb = 0 /\ l.sensmulb = 0

(* C14: the compensation uses the low-temperature pairs exactly when the   *)
(* first-order temperature is below 2000 and the high-temperature pairs    *)
(* from 2000 on; the very-low-temperature multipliers enter only below     *)
(* -1500 and are zero from -1500 on.  Stated of each measurement made and  *)
(* of the choice at temperatures around both thresholds.                   *)
C14_TemperatureRegions ==
  (call = "SNIOC_MEASURE" /\ ret >= 0) =>
    /\ RegionTerms(priv, loc.temp1, loc)
    /\ \A t \in TempSamples : RegionTerms(priv, t, SecondOrderTerms(priv, t))

(* A measurement below 2000 used a low-temperature multiplier. *)
C14_Witness ==
  /\ call = "SNIOC_MEASURE"
  /\ ret >= 0
  /\ loc.temp1 < 2000
  /\ loc.diffmul # 0
  /\ loc.diffmul = priv.diffmull

(* The PROM command writes and the PROM reads of a bus log, in order. *)
PromWrites(b) == SelectSeq(b, LAMBDA e : e.site = "prom" /\ e.op = "write")
PromReads(b) == SelectSeq(b, LAMBDA e : e.site = "prom" /\ e.op = "read")

(* C15: a calibration load reads 7 words on MS5805-02 and MS5837-30, at    *)
(* 0xA0, 0xA2 .. 0xAC in this order, takes word 7 as zero without a read   *)
(* and finds the CRC nibble in bits 15-12 of word 0; on the other models   *)
(* it reads 8 words, 0xA0 .. 0xAE, and the nibble is bits 3-0 of word 7.   *)
C15_WordsRead ==
  call = "SNIOC_RESET" =>
    LET w == PromWrites(bus)
        n == IF priv.model \in {"MS5805_02", "MS5837_30"} THEN 7 ELSE 8
    IN  /\ Len(w) <= n
        /\ Len(PromReads(bus)) <= Len(w)
        /\ \A i \in 1 .. Len(w) : w[i].val = 160 + 2 * (i - 1)
        /\ "raw" \in DOMAIN loc =>
             /\ Len(w) = n
             /\ Len(PromReads(bus)) = n
             /\ IF n = 7
                  THEN loc.raw[7] = 0 /\ loc.crc = loc.raw[0] \div 2^12
                  ELSE loc.crc = loc.raw[7] % 2^4

(* A compact model loaded a PROM with a non-zero nibble in word 0. *)
C15_Witness ==
  /\ call = "SNIOC_RESET"
  /\ ret = OK
  /\ priv.model = "MS5837_30"
  /\ loc.crc # 0
  /\ Len(PromWrites(bus)) = 7

(* C16: the trigger byte written for the pressure conversion differs from  *)
(* the one written for the temperature conversion and has the bit 0x10 of  *)
(* the temperature channel clear, whatever accepted ratio is configured.   *)
C16_TriggerBytes ==
  call = "SNIOC_MEASURE" =>
    \A i \in 1 .. Len(bus) :
      bus[i].site = "press" =>
        /\ BitAnd(bus[i].val, 16) = 0
        /\ \A j \in 1 .. Len(bus) :
             bus[j].site = "temp" => bus[j].val # bus[i].val

(* C17: after a successful calibration load C7 and C8 are, on MS5803-07,   *)
(* bits 9-4 and bits 15-10 of PROM word 7; on MS5806-02, bits 11-4 of      *)
(* word 7 and 0; on every other model both 0.                              *)
C17_WordSevenFields ==
  (call = "SNIOC_RESET" /\ ret >= 0) =>
    CASE priv.model = "MS5803_07" ->
           /\ priv.c7 = (loc.raw[7] \div 2^4) % 2^6
           /\ priv.c8 = loc.raw[7] \div 2^10
      [] priv.model = "MS5806_02" ->
           /\ priv.c7 = (loc.raw[7] \div 2^4) % 2^8
           /\ priv.c8 = 0
      [] OTHER -> priv.c7 = 0 /\ priv.c8 = 0

(* C18: a set-oversampling request whose argument is none of 256, 512,     *)
(* 1024, 2048, 4096, 8192 returns -EINVAL and changes neither the selector *)
(* nor the delay, arguments of 65536 and more included.                    *)
C18_ArgumentNotTruncated ==
  [][ (call' = "SNIOC_OVERSAMPLING"
       /\ arg' \notin {256, 512, 1024, 2048, 4096, 8192})
      => /\ ret' = -EINVAL
         /\ priv'.osr = priv.osr
         /\ priv'.delay = priv.delay ]_vars
=============================================================================
